---- MODULE Spec2Model ----
(***************************************************************************)
(* FileSorter (filesorter.py): the media classifier, the resolution probe, *)
(* the name sanitizer, the collision-safe mover and the FileOrganizer with *)
(* its three sort modes, the hierarchy move and apply_action, over a small *)
(* model of the host filesystem.                                           *)
(*                                                                         *)
(* A string is a tuple of one-character strings, so that splitext, lower,  *)
(* lstrip, re.sub and str.replace are computed character by character.  A  *)
(* path is a tuple of names (its components); os.path.join appends names.  *)
(***************************************************************************)
EXTENDS Integers, Sequences, FiniteSets, TLC

VARIABLES
    fs_files,       \* the filesystem's regular files: path -> content
    fs_dirs,        \* the filesystem's directories: a set of paths
    posix,          \* TRUE on a POSIX host, FALSE on Windows (os.rename differs)
    files,          \* FileOrganizer.files
    sorted_files,   \* FileOrganizer.sorted_files, a dict in insertion order
    new_locations,  \* main's local: the value move_files_to_hierarchy returned
    handles,        \* the decoder handles that are open
    last,           \* what the last operation was given, did and reported
    pc,             \* "new", "ready" (scanned) or "done" (the action was applied)
    nops,           \* the number of sorts and hierarchy moves so far
    cpath,          \* the classifier's input path
    cresult,        \* the classifier's result, or <<>> before the call
    mlog            \* the calls of move_file_to_folder made so far

vars == <<fs_files, fs_dirs, posix, files, sorted_files, new_locations, handles,
          last, pc, nops, cpath, cresult, mlog>>

\* the files of an initial tree
MaxFiles == 2
\* the sorts and hierarchy moves of one run
MaxOps == 2
\* the calls of move_file_to_folder of one run of the mover
MaxCalls == 3

-----------------------------------------------------------------------------
(* Strings *)

UpperToLower ==
    ("A" :> "a") @@ ("B" :> "b") @@ ("C" :> "c") @@ ("D" :> "d") @@ ("E" :> "e") @@
    ("F" :> "f") @@ ("G" :> "g") @@ ("H" :> "h") @@ ("I" :> "i") @@ ("J" :> "j") @@
    ("K" :> "k") @@ ("L" :> "l") @@ ("M" :> "m") @@ ("N" :> "n") @@ ("O" :> "o") @@
    ("P" :> "p") @@ ("Q" :> "q") @@ ("R" :> "r") @@ ("S" :> "s") @@ ("T" :> "t") @@
    ("U" :> "u") @@ ("V" :> "v") @@ ("W" :> "w") @@ ("X" :> "x") @@ ("Y" :> "y") @@
    ("Z" :> "z")

LowerLetters == {UpperToLower[c] : c \in DOMAIN UpperToLower}

DecimalDigits == <<"0", "1", "2", "3", "4", "5", "6", "7", "8", "9">>

\* the characters re.sub(r'[^A-Za-z0-9_\-]', ...) keeps
SafeChars ==
    DOMAIN UpperToLower \cup LowerLetters
        \cup {DecimalDigits[i] : i \in DOMAIN DecimalDigits} \cup {"_", "-"}

\* str.lower()
lower(s) ==
    [i \in 1..Len(s) |-> IF s[i] \in DOMAIN UpperToLower THEN UpperToLower[s[i]] ELSE s[i]]

\* str(index) for index >= 0
RECURSIVE str(_)
str(n) ==
    IF n < Len(DecimalDigits)
    THEN <<DecimalDigits[n + 1]>>
    ELSE str(n \div Len(DecimalDigits)) \o <<DecimalDigits[(n % Len(DecimalDigits)) + 1]>>

\* s.startswith(t, at position i)
StartsAt(s, t, i) ==
    /\ i + Len(t) - 1 <= Len(s)
    /\ \A k \in 1..Len(t) : s[i + k - 1] = t[k]

\* s.replace(old, new): every non-overlapping occurrence, left to right
RECURSIVE ReplaceFrom(_, _, _, _)
ReplaceFrom(s, old, new, i) ==
    IF i > Len(s) THEN <<>>
    ELSE IF StartsAt(s, old, i) THEN new \o ReplaceFrom(s, old, new, i + Len(old))
    ELSE <<s[i]>> \o ReplaceFrom(s, old, new, i + 1)

replace(s, old, new) == ReplaceFrom(s, old, new, 1)

\* s.lstrip('.')
RECURSIVE lstrip_dot(_)
lstrip_dot(s) == IF Len(s) > 0 /\ s[1] = "." THEN lstrip_dot(Tail(s)) ELSE s

-----------------------------------------------------------------------------
(* Paths *)

basename(path) == path[Len(path)]

dirname(path) == SubSeq(path, 1, Len(path) - 1)

\* os.path.join(folder, name): an empty name only adds a trailing separator
join(folder, name) == IF name = <<>> THEN folder ELSE Append(folder, name)

\* the index of the last '.' of a name, 0 when it has none
LastDot(name) ==
    IF \E i \in 1..Len(name) : name[i] = "."
    THEN CHOOSE i \in 1..Len(name) :
            name[i] = "." /\ \A j \in (i + 1)..Len(name) : name[j] # "."
    ELSE 0

\* os.path.splitext on a file name: <<root, ext>>; leading dots are no extension
splitext_name(name) ==
    LET d == LastDot(name) IN
    IF d > 0 /\ \E i \in 1..(d - 1) : name[i] # "."
    THEN <<SubSeq(name, 1, d - 1), SubSeq(name, d, Len(name))>>
    ELSE <<name, <<>>>>

\* os.path.splitext(file_path)[1]: only the last component can hold the extension
splitext_ext(file_path) == splitext_name(basename(file_path))[2]

-----------------------------------------------------------------------------
(* Extension tables *)

\* IMAGE_EXTENSIONS (filesorter.py lines 8-20), one tuple of characters per extension
IMAGE_EXTENSIONS ==
    { <<".", "j", "p", "g">>, <<".", "j", "p", "e", "g">>, <<".", "j", "p", "e">>,
      <<".", "p", "n", "g">>, <<".", "g", "i", "f">>, <<".", "b", "m", "p">>,
      <<".", "t", "i", "f", "f">>, <<".", "t", "i", "f">>, <<".", "s", "v", "g">>,
      <<".", "w", "e", "b", "p">>, <<".", "i", "c", "o">>, <<".", "h", "e", "i", "c">>,
      <<".", "h", "e", "i", "f">>, <<".", "r", "a", "w">>, <<".", "a", "r", "w">>,
      <<".", "c", "r", "2">>, <<".", "n", "e", "f">>, <<".", "o", "r", "f">>,
      <<".", "d", "n", "g">>, <<".", "r", "a", "f">>, <<".", "r", "w", "2">>,
      <<".", "p", "e", "f">>, <<".", "s", "r", "2">>, <<".", "j", "x", "r">> }

\* VIDEO_EXTENSIONS (filesorter.py lines 22-39), one tuple of characters per extension
VIDEO_EXTENSIONS ==
    { <<".", "m", "p", "4">>, <<".", "a", "v", "i">>, <<".", "m", "k", "v">>,
      <<".", "m", "o", "v">>, <<".", "w", "m", "v">>, <<".", "f", "l", "v">>,
      <<".", "m", "p", "e", "g">>, <<".", "m", "p", "g">>, <<".", "m", "4", "v">>,
      <<".", "3", "g", "p">>, <<".", "3", "g", "2">>, <<".", "v", "o", "b">>,
      <<".", "r", "m">>, <<".", "r", "m", "v", "b">>, <<".", "m", "2", "t", "s">>,
      <<".", "m", "t", "s">>, <<".", "t", "s">>, <<".", "w", "e", "b", "m">>,
      <<".", "d", "i", "v", "x">>, <<".", "x", "v", "i", "d">>, <<".", "o", "g", "v">> }

\* AUDIO_EXTENSIONS (filesorter.py lines 41-60), one tuple of characters per extension
AUDIO_EXTENSIONS ==
    { <<".", "m", "p", "3">>, <<".", "w", "a", "v">>, <<".", "a", "a", "c">>,
      <<".", "f", "l", "a", "c">>, <<".", "o", "g", "g">>, <<".", "w", "m", "a">>,
      <<".", "m", "4", "a">>, <<".", "o", "p", "u", "s">>, <<".", "a", "i", "f", "f">>,
      <<".", "a", "l", "a", "c">>, <<".", "p", "c", "m">>, <<".", "a", "m", "r">>,
      <<".", "a", "p", "e">>, <<".", "m", "k", "a">>, <<".", "r", "a">>, <<".", "w", "v">>,
      <<".", "m", "i", "d">>, <<".", "m", "i", "d", "i">>, <<".", "a", "c", "3">> }

\* MISCELLANEOUS_EXTENSIONS (filesorter.py lines 62-89), one tuple of characters per extension
MISCELLANEOUS_EXTENSIONS ==
    { <<".", "p", "d", "f">>, <<".", "d", "o", "c">>, <<".", "d", "o", "c", "x">>,
      <<".", "x", "l", "s">>, <<".", "x", "l", "s", "x">>, <<".", "p", "p", "t">>,
      <<".", "p", "p", "t", "x">>, <<".", "o", "d", "t">>, <<".", "o", "d", "s">>,
      <<".", "o", "d", "p">>, <<".", "r", "t", "f">>, <<".", "t", "x", "t">>,
      <<".", "t", "e", "x">>, <<".", "z", "i", "p">>, <<".", "r", "a", "r">>,
      <<".", "7", "z">>, <<".", "t", "a", "r">>, <<".", "g", "z">>, <<".", "b", "z", "2">>,
      <<".", "x", "z">>, <<".", "i", "s", "o">>, <<".", "d", "m", "g">>,
      <<".", "e", "x", "e">>, <<".", "m", "s", "i">>, <<".", "a", "p", "k">>,
      <<".", "b", "a", "t">>, <<".", "c", "m", "d">>, <<".", "s", "h">>,
      <<".", "b", "a", "s", "h">>, <<".", "a", "p", "p">>, <<".", "j", "a", "r">>,
      <<".", "p", "y">>, <<".", "j", "s">>, <<".", "t", "s">>, <<".", "h", "t", "m", "l">>,
      <<".", "h", "t", "m">>, <<".", "c", "s", "s">>, <<".", "c", "p", "p">>, <<".", "c">>,
      <<".", "h">>, <<".", "h", "p", "p">>, <<".", "j", "a", "v", "a">>, <<".", "r", "b">>,
      <<".", "g", "o">>, <<".", "r", "s">>, <<".", "p", "h", "p">>, <<".", "p", "l">>,
      <<".", "c", "s">>, <<".", "s", "w", "i", "f", "t">>, <<".", "k", "t">>, <<".", "m">>,
      <<".", "j", "s", "o", "n">>, <<".", "x", "m", "l">>, <<".", "y", "m", "l">>,
      <<".", "y", "a", "m", "l">>, <<".", "i", "n", "i">>, <<".", "c", "f", "g">>,
      <<".", "c", "o", "n", "f">>, <<".", "e", "p", "u", "b">>, <<".", "m", "o", "b", "i">>,
      <<".", "a", "z", "w">>, <<".", "a", "z", "w", "3">>, <<".", "s", "t", "l">>,
      <<".", "o", "b", "j">>, <<".", "f", "b", "x">>, <<".", "d", "a", "e">>,
      <<".", "t", "t", "f">>, <<".", "o", "t", "f">>, <<".", "w", "o", "f", "f">>,
      <<".", "w", "o", "f", "f", "2">>, <<".", "l", "o", "g">>, <<".", "c", "s", "v">>,
      <<".", "b", "a", "k">>, <<".", "d", "b">>, <<".", "s", "q", "l">>,
      <<".", "l", "n", "k">>, <<".", "t", "o", "r", "r", "e", "n", "t">> }

CategoryTables ==
    << <<<<"i", "m", "a", "g", "e">>, IMAGE_EXTENSIONS>>, <<<<"v", "i", "d", "e", "o">>, VIDEO_EXTENSIONS>>,
       <<<<"a", "u", "d", "i", "o">>, AUDIO_EXTENSIONS>>, <<<<"m", "i", "s", "c">>, MISCELLANEOUS_EXTENSIONS>> >>

AllExtensions ==
    IMAGE_EXTENSIONS \cup VIDEO_EXTENSIONS \cup AUDIO_EXTENSIONS \cup MISCELLANEOUS_EXTENSIONS

-----------------------------------------------------------------------------
(* Media Classifier *)

get_media_type(file_path) ==
    LET ext == lower(splitext_ext(file_path)) IN
    IF ext \in IMAGE_EXTENSIONS THEN <<"i", "m", "a", "g", "e">>
    ELSE IF ext \in VIDEO_EXTENSIONS THEN <<"v", "i", "d", "e", "o">>
    ELSE IF ext \in AUDIO_EXTENSIONS THEN <<"a", "u", "d", "i", "o">>
    ELSE IF ext \in MISCELLANEOUS_EXTENSIONS THEN <<"m", "i", "s", "c">>
    ELSE <<"o", "t", "h", "e", "r">>

(* Name Sanitizer *)

clean_folder_name(name) ==
    LET n == IF Len(name) > 0 /\ name[1] = "." THEN Tail(name) ELSE name IN
    [i \in 1..Len(n) |-> IF n[i] \in SafeChars THEN n[i] ELSE "_"]

-----------------------------------------------------------------------------
(* The host filesystem: os.path.exists, os.makedirs, os.rename, shutil.move *)

\* os.path.exists: a path below a regular file does not exist
exists(F, D, p) == p \in D \/ p \in DOMAIN F

Prefixes(p) == {SubSeq(p, 1, k) : k \in 1..Len(p)}

\* os.makedirs(target): creates every missing ancestor, and raises when the
\* target exists or an ancestor is a regular file
makedirs(F, D, target) ==
    IF exists(F, D, target) \/ \E a \in Prefixes(target) : a \in DOMAIN F
    THEN [ok |-> FALSE, D |-> D]
    ELSE [ok |-> TRUE, D |-> D \cup Prefixes(target)]

\* the files of F with src moved to dst (whatever dst held is replaced)
Renamed(F, src, dst) ==
    [p \in (DOMAIN F \ {src}) \cup {dst} |-> IF p = dst THEN F[src] ELSE F[p]]

\* os.rename(src, dst) of a regular file.  It raises when src is missing, when
\* dst's directory is missing and when dst is a directory.  When dst is another
\* regular file, POSIX replaces it silently and Windows raises FileExistsError.
os_rename(F, D, src, dst, px) ==
    IF src \notin DOMAIN F \/ dirname(dst) \notin D \/ dst \in D
    THEN [ok |-> FALSE, F |-> F]
    ELSE IF src = dst THEN [ok |-> TRUE, F |-> F]
    ELSE IF dst \in DOMAIN F /\ ~px THEN [ok |-> FALSE, F |-> F]
    ELSE [ok |-> TRUE, F |-> Renamed(F, src, dst)]

\* shutil.move(src, dst) of a regular file: into dst when dst is a directory
\* (raising when the name is taken there), else os.rename, else copy and unlink
shutil_move(F, D, src, dst, px) ==
    IF dst \in D
    THEN IF exists(F, D, join(dst, basename(src)))
         THEN [ok |-> FALSE, F |-> F]
         ELSE os_rename(F, D, src, join(dst, basename(src)), px)
    ELSE LET r == os_rename(F, D, src, dst, px) IN
         IF r.ok THEN r
         ELSE IF src \in DOMAIN F /\ dirname(dst) \in D /\ src # dst
              THEN [ok |-> TRUE, F |-> Renamed(F, src, dst)]
              ELSE [ok |-> FALSE, F |-> F]

-----------------------------------------------------------------------------
(* Collision-Safe Mover *)

\* counter_loop with the bug of never testing os.path.exists: the plain name
\* is used although it is taken
counter_loop_unchecked(F, D, target_folder, base, ext, dest_path, counter) == dest_path

\* counter_loop with the bug of appending the counter after the extension
RECURSIVE counter_loop_after_ext(_, _, _, _, _, _, _)
counter_loop_after_ext(F, D, target_folder, base, ext, dest_path, counter) ==
    IF exists(F, D, dest_path)
    THEN counter_loop_after_ext(F, D, target_folder, base, ext,
                      join(target_folder, base \o ext \o <<"_">> \o str(counter)),
                      counter + 1)
    ELSE dest_path

\* the while loop of move_file_to_folder: the first free name of the target
RECURSIVE counter_loop(_, _, _, _, _, _, _)
counter_loop(F, D, target_folder, base, ext, dest_path, counter) ==
    IF exists(F, D, dest_path)
    THEN counter_loop(F, D, target_folder, base, ext,
                      join(target_folder, base \o <<"_">> \o str(counter) \o ext),
                      counter + 1)
    ELSE dest_path

\* move_file_to_folder(file_path, target_folder): ok is FALSE when it raises
move_file_to_folder(F, D, file_path, target_folder, px) ==
    LET mk == IF ~exists(F, D, target_folder)
              THEN makedirs(F, D, target_folder)
              ELSE [ok |-> TRUE, D |-> D]
    IN
    IF ~mk.ok THEN [ok |-> FALSE, dest |-> <<>>, F |-> F, D |-> D]
    ELSE LET filename == basename(file_path)
             se == splitext_name(filename)
             dest_path == counter_loop(F, mk.D, target_folder, se[1], se[2],
                                       join(target_folder, filename), 1)
             mv == shutil_move(F, mk.D, file_path, dest_path, px)
         IN [ok |-> mv.ok, dest |-> dest_path, F |-> mv.F, D |-> mk.D]

-----------------------------------------------------------------------------
(* Initial trees *)

root_folder == << <<"r">> >>

\* a regular file as created: what the decoders make of it, and no description
Content(path, probe, dims) ==
    [id |-> path, probe |-> probe, dims |-> dims, desc |-> <<>>]

\* the filesystem holding the files of T (a set of contents) and their folders
TreeFiles(T) == [p \in {c.id : c \in T} |-> CHOOSE c \in T : c.id = p]

TreeDirs(T) == {root_folder} \cup UNION {Prefixes(dirname(c.id)) : c \in T}

\* no two files at one path, and no file where another file needs a folder
IsTree(T) ==
    \A c, d \in T : c # d => c.id # d.id /\ c.id \notin Prefixes(d.id)

\* nothing has run yet
InitialObs ==
    [op |-> "init", prev |-> "init", pre_files |-> <<>>, pre_sorted |-> <<>>,
     pre_fs |-> <<>>, pre_dirs |-> {}, ret |-> <<>>, log |-> <<>>, errors |-> 0,
     escaped |-> FALSE, key |-> <<>>, calls |-> 0]

\* the values of the variables a specification does not use
OrganizerIdle ==
    /\ files = <<>>
    /\ sorted_files = <<>>
    /\ new_locations = <<>>
    /\ handles = {}
    /\ last = InitialObs
    /\ pc = "idle"
    /\ nops = 0

ClassifierIdle == cpath = <<>> /\ cresult = <<>>

FilesystemIdle == fs_files = <<>> /\ fs_dirs = {} /\ posix = TRUE

organizerVars == <<files, sorted_files, new_locations, handles, last, pc, nops>>
classifierVars == <<cpath, cresult>>
filesystemVars == <<fs_files, fs_dirs, posix>>

-----------------------------------------------------------------------------
(* The classifier on its own: one call of get_media_type *)

\* every upper/lower-case spelling of a string
RECURSIVE Spellings(_)
Spellings(e) ==
    IF e = <<>> THEN {<<>>}
    ELSE {<<c>> \o r :
            c \in {Head(e)} \cup {u \in DOMAIN UpperToLower : UpperToLower[u] = Head(e)},
            r \in Spellings(Tail(e))}

\* what precedes the extension in the paths classified
ClassifierStems == {<<"f">>, <<"a", ".", "b">>}

\* endings that are in no table
UnlistedExtensions == {<<>>, <<".">>, <<".", "x", "y", "z">>}

ClassifierInit ==
    /\ \E e \in AllExtensions \cup UnlistedExtensions :
         \E sp \in Spellings(e) :
           \E stem \in ClassifierStems :
             cpath = <<<<"r">>, stem \o sp>>
    /\ cresult = <<>>
    /\ mlog = <<>>
    /\ OrganizerIdle
    /\ FilesystemIdle

Classify ==
    /\ cresult = <<>>
    /\ cresult' = get_media_type(cpath)
    /\ UNCHANGED <<cpath, mlog, organizerVars, filesystemVars>>

ClassifierNext == Classify

ClassifierSpec == ClassifierInit /\ [][ClassifierNext]_vars

-----------------------------------------------------------------------------
(* The mover on its own: a sequence of calls of move_file_to_folder *)

MoverFiles ==
    { Content(<<<<"r">>, <<"s", "1">>, <<"a", ".", "j", "p", "g">>>>, "none", <<>>),
      Content(<<<<"r">>, <<"s", "2">>, <<"a", ".", "j", "p", "g">>>>, "none", <<>>),
      Content(<<<<"r">>, <<"s", "3">>, <<"a", ".", "j", "p", "g">>>>, "none", <<>>),
      Content(<<<<"r">>, <<"s", "1">>, <<"b">>>>, "none", <<>>),
      Content(<<<<"r">>, <<"t">>, <<"a", "_", "1", ".", "j", "p", "g">>>>, "none", <<>>) }

\* a folder, a folder to be made, and a path that a regular file may hold
MoverTargets == { <<<<"r">>, <<"t">>>>, <<<<"r">>, <<"u">>, <<"v">>>>, <<<<"r">>, <<"s", "1">>, <<"b">>>> }

FilesIn(F, folder) == {p \in DOMAIN F : dirname(p) = folder}

\* the contents a filesystem holds
Kept(F) == {F[p].id : p \in DOMAIN F}

MoverInit ==
    /\ \E T \in SUBSET MoverFiles :
         /\ T # {}
         /\ fs_files = TreeFiles(T)
         /\ fs_dirs = TreeDirs(T)
    /\ posix \in BOOLEAN
    /\ mlog = <<>>
    /\ OrganizerIdle
    /\ ClassifierIdle

MoveCall(file_path, target_folder) ==
    /\ Len(mlog) < MaxCalls
    /\ LET r == move_file_to_folder(fs_files, fs_dirs, file_path, target_folder, posix) IN
       /\ fs_files' = r.F
       /\ fs_dirs' = r.D
       /\ mlog' = Append(mlog,
                    [file_path |-> file_path, target_folder |-> target_folder,
                     ok |-> r.ok, dest |-> r.dest,
                     existed |-> r.ok /\ exists(fs_files, fs_dirs, r.dest),
                     empty_before |-> FilesIn(fs_files, target_folder) = {},
                     kept |-> Kept(r.F) = Kept(fs_files)])
    /\ UNCHANGED <<posix, organizerVars, classifierVars>>

MoverNext ==
    \E file_path \in DOMAIN fs_files : \E target_folder \in MoverTargets :
        MoveCall(file_path, target_folder)

MoverSpec == MoverInit /\ [][MoverNext]_vars

-----------------------------------------------------------------------------
(* Resolution Probe *)

\* get_image_resolution: the with statement closes the image on every path, and
\* Image.open closes what it opened when it cannot identify the file.
\* value is <<>> for None and <<size>> for a size.
get_image_resolution(F, H, file_path) ==
    IF file_path \in DOMAIN F /\ F[file_path].probe = "ok"
    THEN LET opened == H \cup {file_path} IN
         [value |-> <<F[file_path].dims>>, H |-> opened \ {file_path}]
    ELSE [value |-> <<>>, H |-> H]

\* get_video_resolution: cap.release() runs on the success path only.  When
\* reading a property raises, the capture stays open until the interpreter
\* finalizes the VideoCapture object: finalized says whether that has happened
\* by the time the function has returned.
get_video_resolution(F, H, file_path, finalized) ==
    IF file_path \notin DOMAIN F \/ F[file_path].probe \notin {"ok", "raises"}
    THEN [value |-> <<>>, H |-> H]                         \* not cap.isOpened()
    ELSE LET opened == H \cup {file_path} IN
         IF F[file_path].probe = "raises"
         THEN [value |-> <<>>,                             \* except Exception
               H |-> IF finalized THEN opened \ {file_path} ELSE opened]
         ELSE [value |-> <<F[file_path].dims>>, H |-> opened \ {file_path}]

-----------------------------------------------------------------------------
(* File Organizer *)

\* a dict in insertion order: a sequence of [key, files]
Keys(d) == {d[i].key : i \in 1..Len(d)}

Get(d, key) == d[CHOOSE i \in 1..Len(d) : d[i].key = key].files

\* setdefault_append with the bug of d[key] = [file]: a key's earlier files are lost
setdefault_replace(d, key, file) ==
    IF key \in Keys(d)
    THEN [i \in 1..Len(d) |->
            IF d[i].key = key THEN [d[i] EXCEPT !.files = <<file>>] ELSE d[i]]
    ELSE Append(d, [key |-> key, files |-> <<file>>])

\* d.setdefault(key, []).append(file)
setdefault_append(d, key, file) ==
    IF key \in Keys(d)
    THEN [i \in 1..Len(d) |->
            IF d[i].key = key THEN [d[i] EXCEPT !.files = Append(@, file)] ELSE d[i]]
    ELSE Append(d, [key |-> key, files |-> <<file>>])

\* [f for group in d.values() for f in group]
RECURSIVE values_flat(_)
values_flat(d) == IF d = <<>> THEN <<>> ELSE Head(d).files \o values_flat(Tail(d))

RECURSIVE Perms(_)
Perms(S) ==
    IF S = {} THEN {<<>>} ELSE UNION {{<<x>> \o p : p \in Perms(S \ {x})} : x \in S}

\* os.walk(top), top-down: the files of a folder, then each subfolder in turn;
\* the order of the names within a folder is the host's
RECURSIVE walk(_, _, _)
RECURSIVE walk_each(_, _, _)
walk(F, D, dirpath) ==
    UNION { { here \o below : below \in walk_each(F, D, subdirs) } :
            here \in Perms(FilesIn(F, dirpath)),
            subdirs \in Perms({d \in D : d # <<>> /\ dirname(d) = dirpath}) }

walk_each(F, D, subdirs) ==
    IF subdirs = <<>> THEN {<<>>}
    ELSE { a \o b : a \in walk(F, D, Head(subdirs)), b \in walk_each(F, D, Tail(subdirs)) }

RECURSIVE sort_by_extension(_, _)
sort_by_extension(fl, sorted_dict) ==
    IF fl = <<>> THEN sorted_dict
    ELSE LET file == Head(fl)
             e == lower(splitext_ext(file))
             ext == IF e # <<>> THEN e ELSE <<"n", "o", "_", "e", "x", "t", "e", "n", "s", "i", "o", "n">>
         IN sort_by_extension(Tail(fl), setdefault_append(sorted_dict, ext, file))

RECURSIVE sort_by_media_type(_, _)
sort_by_media_type(fl, sorted_dict) ==
    IF fl = <<>> THEN sorted_dict
    ELSE LET file == Head(fl)
             media_type == get_media_type(file)
         IN sort_by_media_type(Tail(fl), setdefault_append(sorted_dict, media_type, file))

\* st = [dict, H]
RECURSIVE sort_by_resolution(_, _, _, _)
sort_by_resolution(fl, F, st, finalized) ==
    IF fl = <<>> THEN st
    ELSE LET file == Head(fl)
             media_type == get_media_type(file)
             probe == IF media_type = <<"i", "m", "a", "g", "e">> THEN get_image_resolution(F, st.H, file)
                      ELSE IF media_type = <<"v", "i", "d", "e", "o">>
                           THEN get_video_resolution(F, st.H, file, finalized)
                           ELSE [value |-> <<>>, H |-> st.H]
             res_key == IF probe.value # <<>>
                        THEN str(probe.value[1][1]) \o <<"x">> \o str(probe.value[1][2])
                        ELSE <<"u", "n", "k", "n", "o", "w", "n">>
         IN sort_by_resolution(Tail(fl), F,
                [dict |-> setdefault_append(st.dict, res_key, file), H |-> probe.H],
                finalized)

media_folder_of(media_type) ==
    IF media_type = <<"i", "m", "a", "g", "e">> THEN <<"i", "m", "a", "g", "e", "s">>
    ELSE IF media_type = <<"v", "i", "d", "e", "o">> THEN <<"v", "i", "d", "e", "o", "s">>
    ELSE IF media_type = <<"a", "u", "d", "i", "o">> THEN <<"a", "u", "d", "i", "o">>
    ELSE IF media_type = <<"m", "i", "s", "c">> THEN <<"m", "i", "s", "c">>
    ELSE <<"o", "t", "h", "e", "r", "s">>

\* os.path.splitext(file)[1].lower() made a folder name
ext_folder_of(file) ==
    LET ext == lower(splitext_ext(file)) IN
    IF ext # <<>> THEN clean_folder_name(lstrip_dot(ext)) ELSE <<"n", "o", "_", "e", "x", "t", "e", "n", "s", "i", "o", "n">>

\* os.path.join(media_folder, ext_folder), a string
group_key_of(media_folder, ext_folder) == media_folder \o <<"/">> \o ext_folder

\* move_step with the bug of no try / except: a failed move ends the loop
move_step_abort(st, file, px) ==
    LET media_folder == media_folder_of(get_media_type(file))
        ext_folder == ext_folder_of(file)
        target_folder == join(join(root_folder, media_folder), ext_folder)
        mv == move_file_to_folder(st.F, st.D, file, target_folder, px)
        group_key == group_key_of(media_folder, ext_folder)
        entry == [file |-> file, target_folder |-> target_folder,
                  group_key |-> group_key, ok |-> mv.ok, dest |-> mv.dest]
    IN
    IF mv.ok
    THEN [st EXCEPT !.F = mv.F, !.D = mv.D,
                    !.new_locations = setdefault_append(@, group_key, mv.dest),
                    !.log = Append(@, entry)]
    ELSE [st EXCEPT !.D = mv.D, !.log = Append(@, entry), !.escaped = TRUE]

\* the body of move_files_to_hierarchy's loop for one file.
\* st = [F, D, new_locations, log, errors, escaped]
move_step(st, file, px) ==
    LET media_folder == media_folder_of(get_media_type(file))
        ext_folder == ext_folder_of(file)
        target_folder == join(join(root_folder, media_folder), ext_folder)
        mv == move_file_to_folder(st.F, st.D, file, target_folder, px)
        group_key == group_key_of(media_folder, ext_folder)
        entry == [file |-> file, target_folder |-> target_folder,
                  group_key |-> group_key, ok |-> mv.ok, dest |-> mv.dest]
    IN
    IF mv.ok
    THEN [st EXCEPT !.F = mv.F, !.D = mv.D,
                    !.new_locations = setdefault_append(@, group_key, mv.dest),
                    !.log = Append(@, entry)]
    ELSE [st EXCEPT !.D = mv.D, !.log = Append(@, entry), !.errors = @ + 1]

RECURSIVE move_loop(_, _, _)
move_loop(fl, st, px) ==
    IF fl = <<>> \/ st.escaped THEN st
    ELSE move_loop(Tail(fl), move_step(st, Head(fl), px), px)

\* move_files_to_hierarchy: the state after the loop; self.files is
\* values_flat(new_locations) and new_locations is returned
move_files_to_hierarchy(fl, F, D, px) ==
    move_loop(fl, [F |-> F, D |-> D, new_locations |-> <<>>, log |-> <<>>,
                   errors |-> 0, escaped |-> FALSE], px)

-----------------------------------------------------------------------------
(* Action Builders.  An action returns ok = FALSE when it raises; notices    *)
(* counts the messages it prints itself.                                     *)

\* create_rename_action(new_name_pattern)(file_path, index)
rename_action(new_name_pattern, F, D, file_path, index, px) ==
    LET ext == splitext_ext(file_path)
        directory == dirname(file_path)
        base_name == splitext_name(basename(file_path))[1]
        new_name == replace(replace(new_name_pattern, <<"{", "b", "a", "s", "e", "n", "a", "m", "e", "}">>, base_name),
                            <<"{", "i", "n", "d", "e", "x", "}">>, str(index))
        new_file_path == join(directory, new_name \o ext)
        r == os_rename(F, D, file_path, new_file_path, px)
    IN [ok |-> r.ok, F |-> r.F, notices |-> 0, dst |-> new_file_path]

\* create_change_label_action(label)(file_path, index)
change_label_action(label, F, D, file_path, index, px) ==
    LET directory == dirname(file_path)
        base_name == basename(file_path)
        new_name == label \o <<"_">> \o base_name
        new_file_path == join(directory, new_name)
        r == os_rename(F, D, file_path, new_file_path, px)
    IN [ok |-> r.ok, F |-> r.F, notices |-> 0, dst |-> new_file_path]

\* create_add_metadata_action(metadata_key, metadata_value)(file_path, index);
\* piexif says whether the module can be imported.  piexif.insert raises on a
\* file that is missing or holds no JPEG data.
add_metadata_action(metadata_key, metadata_value, F, file_path, piexif) ==
    IF get_media_type(file_path) # <<"i", "m", "a", "g", "e">> THEN [ok |-> TRUE, F |-> F, notices |-> 1, dst |-> <<>>]
    ELSE IF lower(splitext_ext(file_path)) \notin {<<".", "j", "p", "g">>, <<".", "j", "p", "e", "g">>}
    THEN [ok |-> TRUE, F |-> F, notices |-> 1, dst |-> <<>>]
    ELSE IF ~piexif THEN [ok |-> TRUE, F |-> F, notices |-> 1, dst |-> <<>>]
    ELSE IF file_path \notin DOMAIN F \/ F[file_path].probe # "ok"
    THEN [ok |-> FALSE, F |-> F, notices |-> 0, dst |-> <<>>]
    ELSE LET existing == F[file_path].desc
             new_description ==
                 IF existing # <<>>
                 THEN existing \o <<";", " ">> \o metadata_key \o <<":", " ">> \o metadata_value
                 ELSE metadata_key \o <<":", " ">> \o metadata_value
         IN [ok |-> TRUE, F |-> [F EXCEPT ![file_path].desc = new_description],
             notices |-> 0, dst |-> <<>>]

run_action(action, F, D, file_path, index, px, piexif) ==
    IF action.kind = "rename" THEN rename_action(action.a, F, D, file_path, index, px)
    ELSE IF action.kind = "label"
    THEN change_label_action(action.a, F, D, file_path, index, px)
    ELSE add_metadata_action(action.a, action.b, F, file_path, piexif)

\* apply_step with the bug of no try / except: a failed action ends the loop
apply_step_reraise(st, action, file, idx, D, px, piexif) ==
    LET r == run_action(action, st.F, D, file, idx, px, piexif)
        entry == [file |-> file, index |-> idx, ok |-> r.ok,
                  taken |-> r.dst # <<>> /\ r.dst # file /\ exists(st.F, D, r.dst)]
    IN
    IF r.ok
    THEN [st EXCEPT !.F = r.F, !.log = Append(@, entry), !.calls = @ + 1]
    ELSE [st EXCEPT !.log = Append(@, entry), !.calls = @ + 1, !.escaped = TRUE]

\* the body of apply_action's loop for one file: try / except Exception.
\* st = [F, log, errors, escaped, calls]
apply_step(st, action, file, idx, D, px, piexif) ==
    LET r == run_action(action, st.F, D, file, idx, px, piexif)
        entry == [file |-> file, index |-> idx, ok |-> r.ok,
                  taken |-> r.dst # <<>> /\ r.dst # file /\ exists(st.F, D, r.dst)]
    IN
    IF r.ok
    THEN [st EXCEPT !.F = r.F, !.log = Append(@, entry), !.calls = @ + 1]
    ELSE [st EXCEPT !.log = Append(@, entry), !.calls = @ + 1, !.errors = @ + 1]

RECURSIVE apply_loop(_, _, _, _, _, _, _)
apply_loop(fl, idx, st, action, D, px, piexif) ==
    IF fl = <<>> \/ st.escaped THEN st
    ELSE apply_loop(Tail(fl), idx + 1,
                    apply_step(st, action, Head(fl), idx, D, px, piexif),
                    action, D, px, piexif)

\* apply_action with the bug of no membership test: self.sorted_files[group_key]
\* raises KeyError for an unknown key, and nothing is reported
apply_action_unchecked(d, group_key, action, F, D, px, piexif) ==
    LET st == [F |-> F, log |-> <<>>, errors |-> 0, escaped |-> FALSE, calls |-> 0] IN
    IF group_key \notin Keys(d)
    THEN [st EXCEPT !.escaped = TRUE]
    ELSE apply_loop(Get(d, group_key), 1, st, action, D, px, piexif)

\* apply_action(group_key, action): the state when it returns
apply_action(d, group_key, action, F, D, px, piexif) ==
    LET st == [F |-> F, log |-> <<>>, errors |-> 0, escaped |-> FALSE, calls |-> 0] IN
    IF group_key \notin Keys(d)
    THEN [st EXCEPT !.errors = 1]
    ELSE apply_loop(Get(d, group_key), 1, st, action, D, px, piexif)

-----------------------------------------------------------------------------
(* The organizer's run: scan once, then sorts and hierarchy moves in any      *)
(* order (main's assignment of line 378 can follow a move), then at most one *)
(* apply_action, which ends the run as in main().                            *)

\* the files a scanned folder may hold: images that decode and that do not, one
\* already in the hierarchy, a name ending in a dot, a video that decodes, that
\* cannot be opened and whose metadata cannot be read, and a file named as a
\* folder of the hierarchy
OrganizerFiles ==
    { Content(<<<<"r">>, <<"a", ".", "j", "p", "g">>>>, "corrupt", <<>>),
      Content(<<<<"r">>, <<"s", "u", "b">>, <<"a", ".", "j", "p", "g">>>>, "ok", <<300, 200>>),
      Content(<<<<"r">>, <<"i", "m", "a", "g", "e", "s">>, <<"j", "p", "g">>, <<"a", ".", "j", "p", "g">>>>, "ok", <<300, 200>>),
      Content(<<<<"r">>, <<"a", ".">>>>, "none", <<>>),
      Content(<<<<"r">>, <<"C", ".", "M", "P", "4">>>>, "ok", <<640, 480>>),
      Content(<<<<"r">>, <<"C", ".", "M", "P", "4">>>>, "corrupt", <<>>),
      Content(<<<<"r">>, <<"C", ".", "M", "P", "4">>>>, "raises", <<>>),
      Content(<<<<"r">>, <<"i", "m", "a", "g", "e", "s">>>>, "none", <<>>) }

\* the actions main() can build
Actions ==
    { [kind |-> "rename", a |-> <<"x">>, b |-> <<>>],
      [kind |-> "rename", a |-> <<"n", "{", "i", "n", "d", "e", "x", "}", "_", "{", "b", "a", "s", "e", "n", "a", "m", "e", "}">>, b |-> <<>>],
      [kind |-> "label", a |-> <<"L">>, b |-> <<>>],
      [kind |-> "metadata", a |-> <<"k">>, b |-> <<"v">>] }

\* a group key that no Grouping holds
UnknownKey == <<"n", "o", "k", "e", "y">>

Obs(op, ret, log, errors, escaped, key, calls) ==
    [op |-> op, prev |-> last.op, pre_files |-> files, pre_sorted |-> sorted_files,
     pre_fs |-> fs_files, pre_dirs |-> fs_dirs, ret |-> ret, log |-> log,
     errors |-> errors, escaped |-> escaped, key |-> key, calls |-> calls]

Init ==
    /\ \E T \in SUBSET OrganizerFiles :
         /\ Cardinality(T) <= MaxFiles
         /\ IsTree(T)
         /\ fs_files = TreeFiles(T)
         /\ fs_dirs = TreeDirs(T)
    /\ posix \in BOOLEAN
    /\ files = <<>>
    /\ sorted_files = <<>>
    /\ new_locations = <<>>
    /\ handles = {}
    /\ last = InitialObs
    /\ pc = "new"
    /\ nops = 0
    /\ mlog = <<>>
    /\ ClassifierIdle

\* scan_files
Scan ==
    /\ pc = "new"
    /\ \E found \in walk(fs_files, fs_dirs, root_folder) : files' = files \o found
    /\ pc' = "ready"
    /\ last' = Obs("scan_files", <<>>, <<>>, 0, FALSE, <<>>, 0)
    /\ UNCHANGED <<filesystemVars, sorted_files, new_locations, handles, nops, mlog,
                   classifierVars>>

Step == pc = "ready" /\ nops < MaxOps /\ nops' = nops + 1 /\ pc' = pc

SortByExtension ==
    /\ Step
    /\ sorted_files' = sort_by_extension(files, <<>>)
    /\ last' = Obs("sort_by_extension", <<>>, <<>>, 0, FALSE, <<>>, 0)
    /\ UNCHANGED <<filesystemVars, files, new_locations, handles, mlog, classifierVars>>

SortByMediaType ==
    /\ Step
    /\ sorted_files' = sort_by_media_type(files, <<>>)
    /\ last' = Obs("sort_by_media_type", <<>>, <<>>, 0, FALSE, <<>>, 0)
    /\ UNCHANGED <<filesystemVars, files, new_locations, handles, mlog, classifierVars>>

SortByResolution ==
    /\ Step
    /\ \E finalized \in BOOLEAN :
         LET r == sort_by_resolution(files, fs_files, [dict |-> <<>>, H |-> handles],
                                     finalized)
         IN /\ sorted_files' = r.dict
            /\ handles' = r.H
    /\ last' = Obs("sort_by_resolution", <<>>, <<>>, 0, FALSE, <<>>, 0)
    /\ UNCHANGED <<filesystemVars, files, new_locations, mlog, classifierVars>>

\* move_files_to_hierarchy (line 376 of main keeps what it returns)
MoveFilesToHierarchy ==
    /\ Step
    /\ LET r == move_files_to_hierarchy(files, fs_files, fs_dirs, posix) IN
       /\ fs_files' = r.F
       /\ fs_dirs' = r.D
       /\ files' = values_flat(r.new_locations)
       /\ new_locations' = <<r.new_locations>>
       /\ last' = Obs("move_files_to_hierarchy", r.new_locations, r.log, r.errors,
                      r.escaped, <<>>, 0)
    /\ UNCHANGED <<posix, sorted_files, handles, mlog, classifierVars>>

\* organizer.sorted_files = new_locations (line 378 of main)
UpdateSortedFiles ==
    /\ pc = "ready"
    /\ last.op = "move_files_to_hierarchy"
    /\ sorted_files' = new_locations[1]
    /\ last' = Obs("update", <<>>, <<>>, 0, FALSE, <<>>, 0)
    /\ UNCHANGED <<filesystemVars, files, new_locations, handles, pc, nops, mlog,
                   classifierVars>>

\* apply_action(group_key, action)
ApplyAction(group_key, action, piexif) ==
    /\ pc = "ready"
    /\ LET r == apply_action(sorted_files, group_key, action, fs_files, fs_dirs,
                             posix, piexif)
       IN /\ fs_files' = r.F
          /\ last' = Obs("apply_action", <<>>, r.log, r.errors, r.escaped, group_key,
                         r.calls)
    /\ pc' = "done"
    /\ UNCHANGED <<fs_dirs, posix, files, sorted_files, new_locations, handles, nops,
                   mlog, classifierVars>>

Next ==
    \/ Scan
    \/ SortByExtension
    \/ SortByMediaType
    \/ SortByResolution
    \/ MoveFilesToHierarchy
    \/ UpdateSortedFiles
    \/ \E group_key \in Keys(sorted_files) \cup {UnknownKey} :
         \E action \in Actions :
           \E piexif \in IF action.kind = "metadata" THEN BOOLEAN ELSE {TRUE} :
             ApplyAction(group_key, action, piexif)

Spec == Init /\ [][Next]_vars

-----------------------------------------------------------------------------
(* Properties *)

Range(q) == {q[i] : i \in 1..Len(q)}

EndsWith(s, t) == Len(t) <= Len(s) /\ SubSeq(s, Len(s) - Len(t) + 1, Len(s)) = t

NoDuplicates(q) == \A i, j \in 1..Len(q) : i # j => q[i] # q[j]

\* C1: for every extension e of one of the four tables, and every upper/lower-case
\* spelling of it, get_media_type of a path ending in e returns the category of
\* the table that holds e (so every member of the misc table is "misc").
C1_MemberGetsItsCategory ==
    cresult # <<>> =>
        \A t \in 1..Len(CategoryTables) :
            \A e \in CategoryTables[t][2] :
                EndsWith(lower(basename(cpath)), e) => cresult = CategoryTables[t][1]

-----------------------------------------------------------------------------

\* the successful calls of move_file_to_folder into one target folder
CallsInto(target_folder) ==
    {i \in 1..Len(mlog) : mlog[i].ok /\ mlog[i].target_folder = target_folder}

\* each returned path was free before the call, and no file was replaced
FreshDestinations(I) == \A i \in I : ~mlog[i].existed /\ mlog[i].kept

DistinctDestinations(I) == \A i, j \in I : i # j => mlog[i].dest # mlog[j].dest

\* no call takes its source file out of the target folder itself
SourcesOutside(I) == \A i \in I : dirname(mlog[i].file_path) # mlog[i].target_folder

\* the calls so far are a sequence of successful calls into target_folder
OneTargetRun(target_folder) ==
    mlog # <<>> /\ CallsInto(target_folder) = 1..Len(mlog)

\* the folder was empty at first, and every call moved a file of the same name
SameNameRun(target_folder) ==
    /\ OneTargetRun(target_folder)
    /\ mlog[1].empty_before
    /\ \A i \in 1..Len(mlog) : basename(mlog[i].file_path) = basename(mlog[1].file_path)

\* <stem><ext>, <stem>_1<ext>, <stem>_2<ext>, ...
CounterNames(target_folder) ==
    LET se == splitext_name(basename(mlog[1].file_path)) IN
    \A i \in 1..Len(mlog) :
        mlog[i].dest = Append(target_folder,
                              IF i = 1 THEN se[1] \o se[2]
                              ELSE se[1] \o <<"_">> \o str(i - 1) \o se[2])

\* C2 as stated: for any sequence of successful calls into one target folder each
\* returned path was free before its call, nothing is overwritten, the returned
\* paths are pairwise distinct, and files of one name moved into an empty folder
\* land at <stem><ext>, <stem>_1<ext>, <stem>_2<ext>.
C2_AnySequence ==
    \A target_folder \in MoverTargets :
        OneTargetRun(target_folder) =>
            LET I == CallsInto(target_folder) IN
            /\ FreshDestinations(I)
            /\ DistinctDestinations(I)
            /\ SameNameRun(target_folder) => CounterNames(target_folder)

\* C2 amended: each returned path was free before its call and nothing is
\* overwritten; the returned paths are pairwise distinct, and the counters are
\* 1, 2, ..., when no call takes its source out of the target folder itself.
C2_SourcesOutside ==
    \A target_folder \in MoverTargets :
        OneTargetRun(target_folder) =>
            LET I == CallsInto(target_folder) IN
            /\ FreshDestinations(I)
            /\ SourcesOutside(I) =>
                /\ DistinctDestinations(I)
                /\ SameNameRun(target_folder) => CounterNames(target_folder)

\* three files named a.jpg went into the empty folder r/t, the third to a_2.jpg
C2_Witness ==
    /\ Len(mlog) = 3
    /\ SameNameRun(<<<<"r">>, <<"t">>>>)
    /\ SourcesOutside(1..3)
    /\ mlog[3].dest = <<<<"r">>, <<"t">>, <<"a", "_", "2", ".", "j", "p", "g">>>>

-----------------------------------------------------------------------------

AfterMove == last.op = "move_files_to_hierarchy"

Moved == {i \in 1..Len(last.log) : last.log[i].ok}

NotMoved == {i \in 1..Len(last.log) : ~last.log[i].ok}

\* every file of the list as it was is processed, in order, and nothing escapes
WholeBatch ==
    /\ ~last.escaped
    /\ Len(last.log) = Len(last.pre_files)
    /\ \A i \in 1..Len(last.log) : last.log[i].file = last.pre_files[i]
    /\ last.errors = Cardinality(NotMoved)

\* the list and the returned Grouping hold exactly the new paths, each once
ExactlyTheMoved ==
    /\ Range(files) = {last.log[i].dest : i \in Moved}
    /\ NoDuplicates(files)
    /\ Len(files) = Cardinality(Moved)
    /\ Range(values_flat(last.ret)) = Range(files)
    /\ NoDuplicates(values_flat(last.ret))

\* a file whose move failed is where it was, as it was, and is tracked nowhere
FailedUntouched ==
    \A i \in NotMoved :
        LET file == last.log[i].file IN
        /\ file \in DOMAIN fs_files
        /\ fs_files[file] = last.pre_fs[file]
        /\ file \notin Range(files)
        /\ file \notin Range(values_flat(last.ret))

\* C3 as stated: the whole batch is processed, the list and the returned Grouping
\* hold exactly the new paths of the moved files, each once and none of the old
\* paths, and a file whose move failed is untouched and untracked.
C3_NoOldPath ==
    AfterMove =>
        /\ WholeBatch
        /\ ExactlyTheMoved
        /\ \A k \in 1..Len(files) : files[k] \notin Range(last.pre_files)
        /\ FailedUntouched

\* C3 amended: ... each once, and each listed path holds the file that was moved
\* to it, away from its old path (an old path is listed only when another file
\* was moved to it after its own file had left) ...
C3_ListedPathsHoldTheMoved ==
    AfterMove =>
        /\ WholeBatch
        /\ ExactlyTheMoved
        /\ \A i \in Moved :
             LET e == last.log[i] IN
             /\ e.dest # e.file
             /\ e.dest \in DOMAIN fs_files
             /\ fs_files[e.dest] = last.pre_fs[e.file]
             /\ e.file \in DOMAIN fs_files => fs_files[e.file] # last.pre_fs[e.file]
        /\ FailedUntouched

\* one move of the batch failed and a later one succeeded
C3_Witness ==
    /\ AfterMove
    /\ \E i \in NotMoved : \E j \in Moved : i < j

-----------------------------------------------------------------------------

MediaFolders == {<<"i", "m", "a", "g", "e", "s">>, <<"v", "i", "d", "e", "o", "s">>, <<"a", "u", "d", "i", "o">>, <<"m", "i", "s", "c">>, <<"o", "t", "h", "e", "r", "s">>}

\* C4: every file moved, whatever its name, is exactly two folders below the root,
\* <root>/<mediafolder>/<extfolder>/<filename>, mediafolder being the folder of
\* its category and extfolder a non-empty name, the sanitized lower-cased
\* extension without its dot or "no_extension"; it is recorded under the key
\* mediafolder/extfolder.
C4_TwoLevelsBelowRoot ==
    AfterMove =>
        \A i \in Moved :
            LET e == last.log[i]
                n == Len(root_folder)
                ext == lower(splitext_ext(e.file))
            IN
            /\ Len(e.dest) = n + 3
            /\ SubSeq(e.dest, 1, n) = root_folder
            /\ e.dest[n + 1] \in MediaFolders
            /\ e.dest[n + 1] = media_folder_of(get_media_type(e.file))
            /\ e.dest[n + 2] # <<>>
            /\ e.dest[n + 2] = IF ext = <<>> THEN <<"n", "o", "_", "e", "x", "t", "e", "n", "s", "i", "o", "n">>
                               ELSE clean_folder_name(Tail(ext))
            /\ e.group_key = e.dest[n + 1] \o <<"/">> \o e.dest[n + 2]
            /\ e.group_key \in Keys(last.ret)
            /\ e.dest \in Range(Get(last.ret, e.group_key))

-----------------------------------------------------------------------------

AfterApply == last.op = "apply_action"

\* C5: apply_action with a key that the current Grouping does not hold invokes
\* the action zero times, changes neither the filesystem nor the organizer's list
\* or Grouping, reports exactly one error and returns normally.
C5_UnknownKey ==
    (AfterApply /\ last.key \notin Keys(last.pre_sorted)) =>
        /\ last.calls = 0
        /\ last.log = <<>>
        /\ fs_files = last.pre_fs
        /\ fs_dirs = last.pre_dirs
        /\ files = last.pre_files
        /\ sorted_files = last.pre_sorted
        /\ last.errors = 1
        /\ ~last.escaped

\* apply_action was given an unknown key while the Grouping held groups
C5_Witness ==
    /\ AfterApply
    /\ last.key = UnknownKey
    /\ sorted_files # <<>>

\* C6: apply_action with a key of the current Grouping invokes the action exactly
\* once per file of the group, in the stored order, with index i for the i-th file
\* whether or not earlier invocations failed; each failure is caught and reported
\* and nothing escapes.
C6_OncePerFileInOrder ==
    (AfterApply /\ last.key \in Keys(last.pre_sorted)) =>
        LET group == Get(last.pre_sorted, last.key) IN
        /\ last.calls = Len(group)
        /\ Len(last.log) = Len(group)
        /\ \A i \in 1..Len(group) :
             last.log[i].file = group[i] /\ last.log[i].index = i
        /\ last.errors = Cardinality({i \in 1..Len(last.log) : ~last.log[i].ok})
        /\ ~last.escaped

\* the action failed on the first file of a group and succeeded on the second
C6_Witness ==
    /\ AfterApply
    /\ Len(last.log) >= 2
    /\ ~last.log[1].ok
    /\ last.log[2].ok
    /\ last.log[2].index = 2

\* C7: the rename and the label action never replace a file: when the new name
\* is taken in the file's folder the action fails for that file, apply_action
\* reports it, and both files stay with their contents.
C7_NeverReplaces ==
    AfterApply =>
        /\ \A i \in 1..Len(last.log) : last.log[i].taken => ~last.log[i].ok
        /\ Kept(fs_files) = Kept(last.pre_fs)

-----------------------------------------------------------------------------

\* name is old itself or old with a counter before its extension
CounterSuffixed(old, name) ==
    LET se == splitext_name(old) IN
    \/ name = old
    \/ \E k \in 1..(Cardinality(DOMAIN fs_files) + 1) :
         name = se[1] \o <<"_">> \o str(k) \o se[2]

\* C8: a second move_files_to_hierarchy on the tree and the list that a first one
\* left behind leaves the set of folders as it was, keeps every file in its
\* folder and the number of files unchanged; a name changes only by a counter.
C8_SecondRunKeepsShape ==
    (AfterMove /\ last.prev = "move_files_to_hierarchy") =>
        /\ fs_dirs = last.pre_dirs
        /\ Cardinality(DOMAIN fs_files) = Cardinality(DOMAIN last.pre_fs)
        /\ \A p \in DOMAIN last.pre_fs :
             \E q \in DOMAIN fs_files :
                /\ fs_files[q] = last.pre_fs[p]
                /\ dirname(q) = dirname(p)
                /\ CounterSuffixed(basename(p), basename(q))
        /\ \A i \in Moved : dirname(last.log[i].dest) = dirname(last.log[i].file)

\* the second run moved two files of one folder again, each to a new name
C8_Witness ==
    /\ AfterMove
    /\ last.prev = "move_files_to_hierarchy"
    /\ \E i, j \in Moved :
         /\ i # j
         /\ dirname(last.log[i].file) = dirname(last.log[j].file)
         /\ last.log[i].dest # last.log[i].file

-----------------------------------------------------------------------------

\* d is the Grouping of the list fl: every path of fl is in exactly one group, in
\* the order of fl within its group, and no group holds anything else
IsGroupingOf(d, fl) ==
    /\ \A i, j \in 1..Len(d) : i # j => d[i].key # d[j].key
    /\ \A i, j \in 1..Len(d) : i # j => Range(d[i].files) \cap Range(d[j].files) = {}
    /\ UNION {Range(d[i].files) : i \in 1..Len(d)} = Range(fl)
    /\ \A i \in 1..Len(d) :
         LET InGroup(f) == f \in Range(d[i].files) IN
         d[i].files # <<>> /\ d[i].files = SelectSeq(fl, InGroup)

Sorts == {"sort_by_extension", "sort_by_media_type", "sort_by_resolution"}

-----------------------------------------------------------------------------

\* C10: every decoder handle the probe opens is released before the probe
\* returns, on every path, so no handle is open after sort_by_resolution.
C10_NoHandleLeftOpen == handles = {}

====
